---- MODULE Spec2Model ----
(***************************************************************************)
(* paperbot: a Slack bot that answers identifier lookups and free-text     *)
(* searches over a catalog of WG21 papers (paperData, read from            *)
(* index.json).  The repository holds three variants of the bot:           *)
(*   - src/index.js lines 198-425: the current variant (typed search,      *)
(*     help command, title escaping);                                      *)
(*   - src/index.js lines 1-196:   the previous variant (FlexSearch with   *)
(*     limit: 30, no type filter, no help);                                *)
(*   - src/unnamed/part_000:       the first variant (app_mention handler   *)
(*     with a keyword-occurrence search, and a bracket message handler).   *)
(*                                                                         *)
(* Strings.  A JavaScript string is modelled as a sequence of atoms.  An   *)
(* atom is a single character wherever the code looks at characters        *)
(* (identifiers, brackets, markup), and otherwise a run of characters that *)
(* holds no space, no markup and no identifier (a dictionary word such as  *)
(* "concepts", a literal piece of a template such as " (by ").  A text     *)
(* that the code splits on ' ' is modelled as the sequence of its words,   *)
(* an empty word standing for two adjacent spaces.                         *)
(* An optional value (a field that may be undefined, a function that may   *)
(* return undefined) is None or Some(v).                                   *)
(***************************************************************************)
EXTENDS Integers, Sequences, FiniteSets, TLC

VARIABLES paperData, pc, request, response

vars == <<paperData, pc, request, response>>

None == <<>>
Some(v) == <<v>>
IsDefined(o) == Len(o) = 1

Range(s) == {s[i] : i \in 1..Len(s)}
Min(S) == CHOOSE x \in S : \A y \in S : x <= y
Max(S) == CHOOSE x \in S : \A y \in S : x >= y

(***************************************************************************)
(* String primitives                                                       *)
(***************************************************************************)
LowerAtoms ==
  <<"a","b","c","d","e","f","g","h","i","j","k","l","m","n","o","p","q","r",
    "s","t","u","v","w","x","y","z",
    "hello","search","help","papers","issues","concepts","ranges","modules","ann","bob">>
UpperAtoms ==
  <<"A","B","C","D","E","F","G","H","I","J","K","L","M","N","O","P","Q","R",
    "S","T","U","V","W","X","Y","Z",
    "HELLO","SEARCH","HELP","PAPERS","ISSUES","CONCEPTS","RANGES","MODULES","ANN","BOB">>
MixedAtoms == <<"Concepts", "Ranges", "Ann", "Bob">>
MixedLower == <<"concepts", "ranges", "ann", "bob">>
MixedUpper == <<"CONCEPTS", "RANGES", "ANN", "BOB">>

UpperOf ==
  [c \in Range(LowerAtoms) \cup Range(MixedAtoms) |->
     IF c \in Range(LowerAtoms)
     THEN UpperAtoms[CHOOSE i \in 1..Len(LowerAtoms) : LowerAtoms[i] = c]
     ELSE MixedUpper[CHOOSE i \in 1..Len(MixedAtoms) : MixedAtoms[i] = c]]
LowerOf ==
  [c \in Range(UpperAtoms) \cup Range(MixedAtoms) |->
     IF c \in Range(UpperAtoms)
     THEN LowerAtoms[CHOOSE i \in 1..Len(UpperAtoms) : UpperAtoms[i] = c]
     ELSE MixedLower[CHOOSE i \in 1..Len(MixedAtoms) : MixedAtoms[i] = c]]

toUpperCase(s) == [i \in 1..Len(s) |-> IF s[i] \in DOMAIN UpperOf THEN UpperOf[s[i]] ELSE s[i]]
toLowerCase(s) == [i \in 1..Len(s) |-> IF s[i] \in DOMAIN LowerOf THEN LowerOf[s[i]] ELSE s[i]]

startsWith(s, c) == Len(s) >= 1 /\ s[1] = c
endsWith(s, c) == Len(s) >= 1 /\ s[Len(s)] = c
\* s.slice(1, -1)
sliceInner(s) == IF Len(s) <= 2 THEN <<>> ELSE SubSeq(s, 2, Len(s) - 1)
\* array.slice(a) with a 0-based
sliceFrom(a, k) == IF Len(a) <= k THEN <<>> ELSE SubSeq(a, k + 1, Len(a))
\* array.slice(0, k)
sliceTo(a, k) == IF Len(a) <= k THEN a ELSE SubSeq(a, 1, k)

RECURSIVE join(_, _)
join(parts, sep) ==
  IF Len(parts) = 0 THEN <<>>
  ELSE IF Len(parts) = 1 THEN parts[1]
  ELSE parts[1] \o sep \o join(Tail(parts), sep)

DigitAtoms == <<"0","1","2","3","4","5","6","7","8","9">>
IsDigit(c) == c \in Range(DigitAtoms)
DigitValue == [c \in Range(DigitAtoms) |-> (CHOOSE i \in 1..10 : DigitAtoms[i] = c) - 1]

\* `${revision}`: the decimal digits of a number
RECURSIVE NatToStr(_)
NatToStr(n) == IF n < 10 THEN <<DigitAtoms[n + 1]>>
               ELSE NatToStr(n \div 10) \o <<DigitAtoms[(n % 10) + 1]>>

(***************************************************************************)
(* The catalog: paperData = JSON.parse(index.json).  Object.keys order is  *)
(* insertion order, so the catalog is a sequence of entries with distinct  *)
(* ids; paperData[id] is the entry with that id, or undefined.             *)
(***************************************************************************)
HasKey(id) == \E i \in 1..Len(paperData) : paperData[i].id = id
Entry(id) == paperData[CHOOSE i \in 1..Len(paperData) : paperData[i].id = id]
Keys == {paperData[i].id : i \in 1..Len(paperData)}

Paper(id, title, author, date, type, subgroup, issues, github) ==
  [id |-> id, title |-> title, author |-> author, date |-> date, type |-> type,
   subgroup |-> subgroup, link |-> <<"https://wg21.link/">> \o toLowerCase(id),
   issues |-> issues, github_url |-> github]

(***************************************************************************)
(* findLatestRevision, findPaper, makePaperMessage                         *)
(***************************************************************************)
\* `${paperId}R${revision}`
RevPaperId(paperId, revision) == paperId \o <<"R">> \o NatToStr(revision)

\* the loop of findLatestRevision: the first revision that is not a key
RECURSIVE firstMissingRevision(_, _)
firstMissingRevision(paperId, revision) ==
  IF ~HasKey(RevPaperId(paperId, revision)) THEN revision
  ELSE firstMissingRevision(paperId, revision + 1)

\* a slip: the probe starts at revision 1
findLatestRevisionFromOne(paperId) ==
  LET stop == firstMissingRevision(paperId, 1)
  IN IF stop > 1 THEN Some(RevPaperId(paperId, stop - 1)) ELSE None

findLatestRevision(paperId) ==
  LET stop == firstMissingRevision(paperId, 0)
  IN IF stop > 0 THEN Some(RevPaperId(paperId, stop - 1)) ELSE None

escape(c) == IF c = "<" THEN "&lt;" ELSE IF c = ">" THEN "&gt;" ELSE c

issueLink(issue) == <<"<", "https://wg21.link/">> \o toLowerCase(issue) \o <<"|">> \o issue \o <<">">>

messageOf(paperId, paper, title) ==
  LET subgroup == IF ~IsDefined(paper.subgroup) \/ paper.subgroup[1] = <<>> THEN <<>>
                  ELSE <<" [">> \o paper.subgroup[1] \o <<"]">>
      author == IF ~IsDefined(paper.author) THEN <<>> ELSE <<" (by ">> \o paper.author[1] \o <<")">>
      date == IF ~IsDefined(paper.date) THEN <<>> ELSE <<" (">> \o paper.date[1] \o <<")">>
      issues0 == IF ~IsDefined(paper.issues) THEN <<>>
                 ELSE [i \in 1..Len(paper.issues[1]) |-> issueLink(paper.issues[1][i])]
      issues == IF IsDefined(paper.github_url)
                THEN Append(issues0, <<"<">> \o paper.github_url[1] \o <<"|", "GitHub issue", ">">>)
                ELSE issues0
      allIssues == IF Len(issues) = 0 THEN <<>>
                   ELSE <<" (Related: ">> \o join(issues, <<", ">>) \o <<")">>
  IN <<"<">> \o paper.link \o <<"|">> \o paperId \o <<":">> \o subgroup \o <<" ">> \o title
       \o <<">">> \o author \o date \o allIssues

\* current variant: the title's < and > are escaped
makePaperMessage(paperId) ==
  LET paper == Entry(paperId)
  IN messageOf(paperId, paper, [i \in 1..Len(paper.title) |-> escape(paper.title[i])])

\* previous and first variant: the title as it is
makePaperMessageRaw(paperId) ==
  LET paper == Entry(paperId) IN messageOf(paperId, paper, paper.title)

NotFoundText == <<"Sorry, I could not find that paper.">>

\* a slip: the identifier is not uppercased
findPaperAsTyped(text) ==
  LET latest == findLatestRevision(text)
      paperId == IF (startsWith(text, "P") \/ startsWith(text, "D")) /\ Len(text) = 5
                 THEN (IF IsDefined(latest) THEN latest[1] ELSE text)
                 ELSE text
  IN IF ~HasKey(paperId) THEN NotFoundText ELSE makePaperMessage(paperId)

findPaper(text) ==
  LET upper == toUpperCase(text)
      latest == findLatestRevision(upper)
      paperId == IF (startsWith(upper, "P") \/ startsWith(upper, "D")) /\ Len(upper) = 5
                 THEN (IF IsDefined(latest) THEN latest[1] ELSE upper)
                 ELSE upper
  IN IF ~HasKey(paperId) THEN NotFoundText ELSE makePaperMessage(paperId)

\* first variant, app_mention handler, the branch for a bracketed command
legacyBracketLookup(command) ==
  LET inner == sliceInner(command)
      paperId == IF startsWith(inner, "P") /\ Len(inner) = 5
                 THEN findLatestRevision(inner) ELSE Some(inner)
  IN IF ~IsDefined(paperId) \/ ~HasKey(paperId[1]) THEN NotFoundText
     ELSE makePaperMessageRaw(paperId[1])

(***************************************************************************)
(* Lookup: catalogs and inputs                                             *)
(***************************************************************************)
\* the highest revision number a catalog of the lookup model may hold
MaxRev == 3

P1234 == <<"P","1","2","3","4">>
D0042 == <<"D","0","0","4","2">>
N4861 == <<"N","4","8","6","1">>
CWG123 == <<"C","W","G","1","2","3">>

DateOf(y4, m2, d2) == y4 \o <<"-">> \o m2 \o <<"-">> \o d2
TwoDigits(n) == IF n < 10 THEN <<"0">> \o NatToStr(n) ELSE NatToStr(n)

\* every record a catalog of the lookup model may hold
LookupUniverse ==
  << Paper(P1234, <<"concepts">>, None, None, Some(<<"paper">>), None, None, None) >>
  \o [r \in 1..(MaxRev + 1) |->
        Paper(RevPaperId(P1234, r - 1), <<"vector", "<", "T", ">">>,
              IF r % 2 = 0 THEN Some(<<"Ann">>) ELSE None,
              Some(DateOf(<<"2","0","2","1">>, TwoDigits(((r - 1) % 12) + 1), <<"0","1">>)),
              Some(<<"paper">>),
              IF r = 1 THEN Some(<<"LEWG">>) ELSE IF r = 2 THEN Some(<<>>) ELSE None,
              IF r = 2 THEN Some(<<CWG123>>) ELSE None,
              IF r = 3 THEN Some(<<"https://github.com/cplusplus/papers/issues/1">>) ELSE None)]
  \o << Paper(D0042, <<"ranges">>, Some(<<"Bob">>), None, Some(<<"paper">>), None, None, None),
        Paper(RevPaperId(D0042, 0), <<"ranges">>, Some(<<"Bob">>), None, Some(<<"paper">>), None, None, None),
        Paper(RevPaperId(D0042, 1), <<"ranges">>, Some(<<"Bob">>), None, Some(<<"paper">>), None, None, None),
        Paper(N4861, <<"draft">>, None, Some(DateOf(<<"2","0","2","0">>, <<"0","4">>, <<"0","8">>)),
              Some(<<"paper">>), None, None, None),
        Paper(CWG123, <<"issue">>, None, None, Some(<<"issue">>), Some(<<"CWG">>), None, None) >>

LookupKeys == {LookupUniverse[i].id : i \in 1..Len(LookupUniverse)}
LookupCatalog(K) == SelectSeq(LookupUniverse, LAMBDA e : e.id \in K)

BareIds == {P1234, D0042}

\* the raw texts handed to findPaper
LookupTexts ==
  LookupKeys \cup {toLowerCase(k) : k \in LookupKeys}
  \cup { <<"p","1","2","3","4","R","1">>, <<"P","9","9","9","9">>, <<"P","A","P","E","R">>,
         <<"P","1","2","3","4",".">>, <<"N","4","8","6","2">>, <<"hello">>, <<>> }

InitLookup ==
  /\ \E K \in SUBSET LookupKeys : paperData = LookupCatalog(K)
  /\ pc = "idle"
  /\ request = [fn |-> "none"]
  /\ response = None

CallFindPaper ==
  /\ pc = "idle"
  /\ \E text \in LookupTexts :
       /\ request' = [fn |-> "findPaper", arg |-> text]
       /\ response' = findPaper(text)
  /\ pc' = "returned"
  /\ UNCHANGED paperData

CallFindLatestRevision ==
  /\ pc = "idle"
  /\ \E paperId \in BareIds :
       /\ request' = [fn |-> "findLatestRevision", arg |-> paperId]
       /\ response' = findLatestRevision(paperId)
  /\ pc' = "returned"
  /\ UNCHANGED paperData

CallLegacyBracketLookup ==
  /\ pc = "idle"
  /\ \E text \in LookupTexts :
       /\ request' = [fn |-> "legacyBracketLookup", arg |-> <<"[">> \o text \o <<"]">>]
       /\ response' = legacyBracketLookup(<<"[">> \o text \o <<"]">>)
  /\ pc' = "returned"
  /\ UNCHANGED paperData

\* the call is over; the next one starts from the same catalog
Return ==
  /\ pc = "returned"
  /\ pc' = "idle"
  /\ request' = [fn |-> "none"]
  /\ response' = None
  /\ UNCHANGED paperData

NextLookup == CallFindPaper \/ CallFindLatestRevision \/ CallLegacyBracketLookup \/ Return

SpecLookup == InitLookup /\ [][NextLookup]_vars

(***************************************************************************)
(* Claims on lookup                                                        *)
(***************************************************************************)
\* msg is the rendering of the record stored under key
RendersRecord(msg, key) ==
  LET head == <<"<">> \o Entry(key).link \o <<"|">> \o key \o <<":">>
  IN /\ HasKey(key)
     /\ Len(msg) > Len(head)
     /\ SubSeq(msg, 1, Len(head)) = head

\* R0..Rk of family B are keys and R(k+1) is not
ContiguousUpTo(B, k) ==
  /\ \A j \in 0..k : HasKey(RevPaperId(B, j))
  /\ ~HasKey(RevPaperId(B, k + 1))

\* C1: with R0..Rk of a family present and R(k+1) absent, findLatestRevision(B)
\* returns B+'Rk' and findPaper(B) renders the record stored under B+'Rk',
\* whatever revisions lie beyond the gap.
C1_LatestContiguousRevision ==
  \A B \in BareIds : \A k \in 0..MaxRev :
    (pc = "returned" /\ request.arg = B /\ ContiguousUpTo(B, k)) =>
      /\ request.fn = "findLatestRevision" => response = Some(RevPaperId(B, k))
      /\ request.fn = "findPaper" => RendersRecord(response, RevPaperId(B, k))

C1_Witness ==
  /\ pc = "returned" /\ request.fn = "findPaper" /\ request.arg = P1234
  /\ ContiguousUpTo(P1234, 1) /\ HasKey(RevPaperId(P1234, 3))
  /\ RendersRecord(response, RevPaperId(P1234, 1))

\* C2 as stated: when B+'R0' is not a key, findPaper(B) returns the not-found
\* text, whatever other keys the catalog holds.
C2_NoR0NotFound ==
  (pc = "returned" /\ request.fn = "findPaper" /\ request.arg \in BareIds
     /\ ~HasKey(RevPaperId(request.arg, 0)))
    => response = NotFoundText

\* C2 amended: when neither B+'R0' nor B itself is a key, findPaper(B) returns
\* the not-found text, whatever other keys (later revisions included) the
\* catalog holds.
C2_NoR0NoBareNotFound ==
  (pc = "returned" /\ request.fn = "findPaper" /\ request.arg \in BareIds
     /\ ~HasKey(RevPaperId(request.arg, 0)) /\ ~HasKey(request.arg))
    => response = NotFoundText

C2_Witness ==
  /\ pc = "returned" /\ request.fn = "findPaper" /\ request.arg = P1234
  /\ ~HasKey(RevPaperId(P1234, 0)) /\ ~HasKey(P1234)
  /\ HasKey(RevPaperId(P1234, 1)) /\ HasKey(N4861)
  /\ response = NotFoundText

\* C3: lookup is case-insensitive: looking up the lowercased form of a key X
\* gives the same reply as looking up X, and that reply is a rendered record
\* and not the not-found text.  Stated over both lookups of the repository:
\* findPaper, and the bracket lookup of the first variant's app_mention handler.
C3_CaseInsensitiveLookup ==
  \A X \in Keys :
    /\ (pc = "returned" /\ request.fn = "findPaper" /\ request.arg = toLowerCase(X))
         => (response = findPaper(X) /\ response # NotFoundText)
    /\ (pc = "returned" /\ request.fn = "legacyBracketLookup"
          /\ request.arg = <<"[">> \o toLowerCase(X) \o <<"]">>)
         => (response = legacyBracketLookup(<<"[">> \o X \o <<"]">>) /\ response # NotFoundText)

\* the part of C3 that is about findPaper alone
C3_FindPaperCaseInsensitive ==
  \A X \in Keys :
    (pc = "returned" /\ request.fn = "findPaper" /\ request.arg = toLowerCase(X))
      => /\ response = findPaper(X)
         /\ \/ RendersRecord(response, X)
            \/ \E k \in 0..MaxRev : RendersRecord(response, RevPaperId(X, k))

\* C9: findPaper is total: it returns the rendering of a record that is a key
\* of the catalog, or the not-found text, and the not-found text exactly when
\* the uppercased identifier (for a bare P/D identifier: neither its R0 nor the
\* identifier itself) is not a key.
C9_FindPaperTotal ==
  (pc = "returned" /\ request.fn = "findPaper") =>
    LET upper == toUpperCase(request.arg)
        bare == Len(upper) = 5 /\ upper[1] \in {"P", "D"}
        absent == IF bare THEN ~HasKey(RevPaperId(upper, 0)) /\ ~HasKey(upper)
                  ELSE ~HasKey(upper)
    IN /\ response = NotFoundText <=> absent
       /\ response # NotFoundText => \E key \in Keys : RendersRecord(response, key)
       /\ (response # NotFoundText /\ ~bare) => RendersRecord(response, upper)

C9_Witness ==
  /\ pc = "returned" /\ request.fn = "findPaper"
  /\ request.arg = toLowerCase(N4861)
  /\ RendersRecord(response, N4861)

(***************************************************************************)
(* matchPaper, matchPaperInSquareBrackets: the regular expression          *)
(*   (N\d{4}|[PD]\d{4}(R\d)?|(CWG|EWG|LWG|LEWG|FS)\d{1,3})   with flag i,  *)
(* unanchored, and the same between \[ and \].  String.match returns the   *)
(* leftmost match; the quantifiers are greedy and give back under          *)
(* backtracking.                                                           *)
(***************************************************************************)
\* \d{1,3}: the most digits the pattern takes after an issue prefix
MaxIssueDigits == 3

IssuePrefixes ==
  << <<"C","W","G">>, <<"E","W","G">>, <<"L","W","G">>, <<"L","E","W","G">>, <<"F","S">> >>

\* one character against a letter of the pattern, under flag i
SameLetter(c, letter) == c = letter \/ (c \in DOMAIN UpperOf /\ UpperOf[c] = letter)

\* \d{n} at position i
DigitsAt(s, i, n) == i + n - 1 <= Len(s) /\ \A j \in i..(i + n - 1) : IsDigit(s[j])

\* a literal word of the pattern at position i
PrefixAt(s, i, word) ==
  i + Len(word) - 1 <= Len(s) /\ \A j \in 1..Len(word) : SameLetter(s[i + j - 1], word[j])

\* every length the group can match with at position i
GroupLengthsAt(s, i) ==
  (IF i <= Len(s) /\ SameLetter(s[i], "N") /\ DigitsAt(s, i + 1, 4) THEN {5} ELSE {})
  \cup
  (IF i <= Len(s) /\ (SameLetter(s[i], "P") \/ SameLetter(s[i], "D")) /\ DigitsAt(s, i + 1, 4)
   THEN {5} \cup (IF i + 6 <= Len(s) /\ SameLetter(s[i + 5], "R") /\ IsDigit(s[i + 6])
                  THEN {7} ELSE {})
   ELSE {})
  \cup
  UNION { {Len(IssuePrefixes[p]) + n : n \in {m \in 1..MaxIssueDigits :
                                                DigitsAt(s, i + Len(IssuePrefixes[p]), m)}}
          : p \in {q \in 1..Len(IssuePrefixes) : PrefixAt(s, i, IssuePrefixes[q])} }

matchPaper(text) ==
  LET starts == {i \in 1..Len(text) : GroupLengthsAt(text, i) # {}}
      first == Min(starts)
  IN IF starts = {} THEN None
     ELSE Some(SubSeq(text, first, first + Max(GroupLengthsAt(text, first)) - 1))

\* the lengths of the group at i + 1 that a "]" follows, for a "[" at i
BracketedLengthsAt(s, i) ==
  IF i <= Len(s) /\ s[i] = "["
  THEN {n \in GroupLengthsAt(s, i + 1) : i + 1 + n <= Len(s) /\ s[i + 1 + n] = "]"}
  ELSE {}

matchPaperInSquareBrackets(text) ==
  LET starts == {i \in 1..Len(text) : BracketedLengthsAt(text, i) # {}}
      first == Min(starts)
  IN IF starts = {} THEN None
     ELSE Some(SubSeq(text, first, first + 1 + Max(BracketedLengthsAt(text, first))))

(***************************************************************************)
(* Pattern extraction: inputs                                              *)
(***************************************************************************)
\* the longest digit run of a token of the matching model
MaxDigits == 5

SomeDigits == <<"1","2","3","4","5","6","7","8","9">>

TokenPrefixes ==
  { <<"N">>, <<"P">>, <<"D">>, <<"C","W","G">>, <<"L","E","W","G">>, <<"F","S">>,
    <<"n">>, <<"c","w","g">>, <<"X">>, <<>> }
TokenSuffixes == { <<>>, <<"R","1">>, <<"R">>, <<".">>, <<"R","1","2">> }

Tokens ==
  LET ids == { p \o SubSeq(SomeDigits, 1, k) \o x :
                 p \in TokenPrefixes, k \in 0..MaxDigits, x \in TokenSuffixes }
  IN ids \cup { <<"[">> \o t \o <<"]">> : t \in ids } \cup { <<"x">> \o t : t \in ids }
         \cup { <<"[">> \o t \o <<"]", ",">> : t \in ids }

InitMatch ==
  /\ paperData = LookupCatalog(LookupKeys)
  /\ pc = "idle"
  /\ request = [fn |-> "none"]
  /\ response = None

CallMatchPaper ==
  /\ pc = "idle"
  /\ \E text \in Tokens :
       /\ request' = [fn |-> "matchPaper", arg |-> text]
       /\ response' = matchPaper(text)
  /\ pc' = "returned"
  /\ UNCHANGED paperData

CallMatchPaperInSquareBrackets ==
  /\ pc = "idle"
  /\ \E text \in Tokens :
       /\ request' = [fn |-> "matchPaperInSquareBrackets", arg |-> text]
       /\ response' = matchPaperInSquareBrackets(text)
  /\ pc' = "returned"
  /\ UNCHANGED paperData

NextMatch == CallMatchPaper \/ CallMatchPaperInSquareBrackets \/ Return

SpecMatch == InitMatch /\ [][NextMatch]_vars

(***************************************************************************)
(* Claims on pattern extraction                                            *)
(***************************************************************************)
\* t is, as a whole, an identifier of a family the specification recognizes:
\* N + 4 digits, P/D + 4 digits with an optional R + digit, or
\* CWG/EWG/LWG/LEWG/FS + 1 to 4 digits; letters in either case
IsSpecIdentifier(t) ==
  LET u == toUpperCase(t)
      AllDigits(a, b) == \A j \in a..b : IsDigit(u[j])
  IN \/ Len(u) = 5 /\ u[1] = "N" /\ AllDigits(2, 5)
     \/ Len(u) = 5 /\ u[1] \in {"P", "D"} /\ AllDigits(2, 5)
     \/ Len(u) = 7 /\ u[1] \in {"P", "D"} /\ AllDigits(2, 5) /\ u[6] = "R" /\ IsDigit(u[7])
     \/ \E w \in Range(IssuePrefixes) : \E n \in 1..4 :
          /\ Len(u) = Len(w) + n
          /\ SubSeq(u, 1, Len(w)) = w
          /\ AllDigits(Len(w) + 1, Len(u))

\* C6: pattern extraction never partially matches: a result is returned only
\* for a token that is, as a whole, one identifier of a recognized family (in
\* square brackets for matchPaperInSquareBrackets), the result is that whole
\* token, and every such token (CWG1234 included) is matched in full.
C6_NoPartialMatch ==
  /\ (pc = "returned" /\ request.fn = "matchPaper") =>
       /\ IsDefined(response) => (IsSpecIdentifier(request.arg) /\ response[1] = request.arg)
       /\ IsSpecIdentifier(request.arg) => response = Some(request.arg)
  /\ (pc = "returned" /\ request.fn = "matchPaperInSquareBrackets") =>
       LET bracketed == /\ Len(request.arg) >= 2
                        /\ request.arg[1] = "[" /\ request.arg[Len(request.arg)] = "]"
                        /\ IsSpecIdentifier(sliceInner(request.arg))
       IN /\ IsDefined(response) => (bracketed /\ response[1] = request.arg)
          /\ bracketed => response = Some(request.arg)

(***************************************************************************)
(* Search: the date comparator, Array.prototype.sort, the FlexSearch index *)
(***************************************************************************)
\* searchResults.slice(0, 30) / limit: 30
MaxResults == 30
\* searchResults.slice(0, 15)
TopResults == 15

\* s.split(sep): the pieces of s between the atoms equal to sep; i scans s,
\* start is where the piece being read began
RECURSIVE splitFrom(_, _, _, _)
splitFrom(s, sep, i, start) ==
  IF i > Len(s) THEN << SubSeq(s, start, Len(s)) >>
  ELSE IF s[i] = sep THEN << SubSeq(s, start, i - 1) >> \o splitFrom(s, sep, i + 1, i + 1)
  ELSE splitFrom(s, sep, i + 1, start)

split(s, sep) == splitFrom(s, sep, 1, 1)

\* parseInt(str, 10) of a string of decimal digits: the value of its first n
RECURSIVE parseDigits(_, _)
parseDigits(str, n) ==
  IF n = 0 THEN 0 ELSE 10 * parseDigits(str, n - 1) + DigitValue[str[n]]

parseInt(str) == parseDigits(str, Len(str))

\* the comparator on two optional dates (strings YYYY-MM-DD)
compareDates(xdate, ydate) ==
  IF ~IsDefined(xdate) THEN 1
  ELSE IF ~IsDefined(ydate) THEN -1
  ELSE LET x == split(xdate[1], "-")
           y == split(ydate[1], "-")
           xyear == parseInt(x[1])   xmonth == parseInt(x[2])   xday == parseInt(x[3])
           yyear == parseInt(y[1])   ymonth == parseInt(y[2])   yday == parseInt(y[3])
       IN IF xyear # yyear THEN (IF yyear < xyear THEN -1 ELSE 1)
          ELSE IF xmonth # ymonth THEN (IF ymonth < xmonth THEN -1 ELSE 1)
          ELSE (IF yday < xday THEN -1 ELSE 1)

\* latestFirst on two documents of the index
latestFirst(x, y) == compareDates(x.date, y.date)

\* first variant: (x, y) => y.occurrences < x.occurrences ? -1 : 1
mostOccurrencesFirst(x, y) == IF y.occurrences < x.occurrences THEN -1 ELSE 1

\* first variant: the date comparator on results {occurrences, paperId}
latestFirstById(x, y) == compareDates(Entry(x.paperId).date, Entry(y.paperId).date)

compare(order, x, y) ==
  IF order = "latestFirst" THEN latestFirst(x, y)
  ELSE IF order = "mostOccurrencesFirst" THEN mostOccurrencesFirst(x, y)
  ELSE latestFirstById(x, y)

\* array.sort(comparator), as an insertion sort: each element in turn moves
\* left past the elements the comparator puts after it, and stops behind the
\* first one (from the right) that the comparator does not put after it
insertInto(sorted, x, order) ==
  LET stop == Max({0} \cup {j \in 1..Len(sorted) : compare(order, sorted[j], x) <= 0})
  IN SubSeq(sorted, 1, stop) \o <<x>> \o SubSeq(sorted, stop + 1, Len(sorted))

RECURSIVE sortPrefix(_, _, _)
sortPrefix(array, order, n) ==
  IF n = 0 THEN <<>>
  ELSE LET sorted == sortPrefix(array, order, n - 1)
       \* (the test always holds: it only has the prefix sorted first)
       IN IF Len(sorted) = n - 1 THEN insertInto(sorted, array[n], order) ELSE sorted

sort(array, order) == sortPrefix(array, order, Len(array))

\* adjustedPaperData: one document per key, in key order
adjustedPaperData ==
  [i \in 1..Len(paperData) |->
     LET paper == paperData[i]
     IN [data |-> join(<<paper.id, paper.title,
                         IF IsDefined(paper.author) THEN paper.author[1] ELSE <<>>,
                         IF IsDefined(paper.date) THEN paper.date[1] ELSE <<>>>>, <<" ">>),
         paperId |-> paper.id, type |-> paper.type, date |-> paper.date]]

\* the words of a text, lowercased (FlexSearch, tokenize: "strict")
tokens(text) == {toLowerCase(w) : w \in Range(split(text, " "))} \ {<<>>}

\* the documents of the index that the query matches, in index order: every
\* word of the query is a word of the document's data
hits(query) ==
  LET words == tokens(query)
  IN SelectSeq(adjustedPaperData, LAMBDA doc : words # {} /\ words \subseteq tokens(doc.data))

\* where: { type: type }
where(docs, type) ==
  IF IsDefined(type) THEN SelectSeq(docs, LAMBDA doc : doc.type = type) ELSE docs

\* index.search({ query, where, sort }): current variant
indexSearch(query, type) == sort(where(hits(query), type), "latestFirst")

\* index.search({ query, where, sort, limit: 30 }): previous variant.  Where the
\* library cuts to the limit is not the repository's to say ("it discards
\* relevant results for some reason", src/index.js:297): it cuts the matches
\* before it filters and sorts them (early), or the sorted result.
indexSearchLimited(query, type, early) ==
  IF early THEN sort(where(sliceTo(hits(query), MaxResults), type), "latestFirst")
  ELSE sliceTo(sort(where(hits(query), type), "latestFirst"), MaxResults)

NoResultsText == <<"No results.">>

linkOf(paperId) == <<"<">> \o Entry(paperId).link \o <<"|">> \o paperId \o <<">">>

\* the reply text built from the results kept (at most 30)
responseText(searchResults, raw) ==
  LET topResults == sliceTo(searchResults, TopResults)
  IN join([i \in 1..Len(topResults) |->
             IF raw THEN makePaperMessageRaw(topResults[i].paperId)
             ELSE makePaperMessage(topResults[i].paperId)], <<"\n">>)
     \o (IF Len(searchResults) <= TopResults THEN <<>>
         ELSE <<"\nAlso: ">>
              \o join([i \in 1..(Len(searchResults) - TopResults) |->
                         linkOf(searchResults[TopResults + i].paperId)], <<", ">>))

\* a slip: the results are not cut to 30
searchUncut(query, type) ==
  LET searchResults == indexSearch(query, type)
  IN IF Len(searchResults) = 0 THEN NoResultsText
     ELSE responseText(searchResults, FALSE)

\* a slip: the type filter is dropped
searchUnfiltered(query, type) ==
  LET searchResults == indexSearch(query, None)
  IN IF Len(searchResults) = 0 THEN NoResultsText
     ELSE responseText(sliceTo(searchResults, MaxResults), FALSE)

\* search, current variant
search(query, type) ==
  LET searchResults == indexSearch(query, type)
  IN IF Len(searchResults) = 0 THEN NoResultsText
     ELSE responseText(sliceTo(searchResults, MaxResults), FALSE)

\* search, previous variant
searchLimited(query, type, early) ==
  LET searchResults == indexSearchLimited(query, type, early)
  IN IF Len(searchResults) = 0 THEN NoResultsText
     ELSE responseText(searchResults, TRUE)

\* first variant: the keyword-occurrence search of the app_mention handler
occurrencesIn(text, keywords) ==
  LET words == split(toLowerCase(text), " ")
  IN Cardinality({i \in 1..Len(words) : words[i] \in Range(keywords)})

legacyMatches(messageWords) ==
  LET keywords == [i \in 1..Len(sliceFrom(messageWords, 2)) |->
                     toLowerCase(sliceFrom(messageWords, 2)[i])]
      counted == [i \in 1..Len(paperData) |->
                    [occurrences |->
                       occurrencesIn(paperData[i].title, keywords)
                       + (IF IsDefined(paperData[i].author)
                          THEN occurrencesIn(paperData[i].author[1], keywords) ELSE 0),
                     paperId |-> paperData[i].id]]
  IN SelectSeq(counted, LAMBDA r : r.occurrences > 0)

legacySearch(messageWords) ==
  LET found == legacyMatches(messageWords)
      searchResults == sliceTo(sort(found, "mostOccurrencesFirst"), MaxResults)
      topResults == sort(sliceTo(searchResults, TopResults), "latestFirstById")
  IN IF Len(found) = 0 THEN NoResultsText
     ELSE responseText(topResults \o sliceFrom(searchResults, TopResults), TRUE)

(***************************************************************************)
(* The handlers.  An event is [text, channel_type]: text is the message    *)
(* split on ' ' (its words, an empty word for two adjacent spaces), and    *)
(* the mention of the bot, <@U...>, is one atom.  A handler's value is the *)
(* sequence of texts it sends for the event.                               *)
(***************************************************************************)
BotMention == "<@U0>"

botMentioned(text) == Len(text) >= 1 /\ Len(text[1]) >= 1 /\ text[1][1] = BotMention

\* event.text.split(' ').filter(word => word !== '')
nonEmptyWords(text) == SelectSeq(text, LAMBDA word : word # <<>>)

HelpText ==
  <<"Usage: \"@npaperbot search [papers|issues|everything]: <keywords>\"",
    " or \"@npaperbot {Nxxxx|Pxxxx|PxxxxRx|Dxxxx|DxxxxRx|CWGxxx|EWGxxx|LWGxxx|LEWGxxx|FSxxx}...\"">>

\* findPaper of the previous variant: the same, with the title as it is
findPaperRaw(text) ==
  LET upper == toUpperCase(text)
      latest == findLatestRevision(upper)
      paperId == IF (startsWith(upper, "P") \/ startsWith(upper, "D")) /\ Len(upper) = 5
                 THEN (IF IsDefined(latest) THEN latest[1] ELSE upper)
                 ELSE upper
  IN IF ~HasKey(paperId) THEN NotFoundText ELSE makePaperMessageRaw(paperId)

\* the arguments of search for the words of a search command, current variant
searchArguments(words) ==
  IF Len(words) >= 2 /\ words[2] = <<"papers">>
  THEN [query |-> join(sliceFrom(words, 2), <<" ">>), type |-> Some(<<"paper">>)]
  ELSE IF Len(words) >= 2 /\ words[2] = <<"issues">>
  THEN [query |-> join(sliceFrom(words, 2), <<" ">>), type |-> Some(<<"issue">>)]
  ELSE [query |-> join(sliceFrom(words, 1), <<" ">>), type |-> None]

\* app.message(/.*/, ...), current variant
appMessage(event) ==
  LET mentioned == botMentioned(event.text)
      words == IF mentioned THEN sliceFrom(nonEmptyWords(event.text), 1)
               ELSE IF event.channel_type = "im" THEN nonEmptyWords(event.text)
               ELSE <<>>
      raw == join(event.text, <<" ">>)
  IN IF mentioned \/ event.channel_type = "im"
     THEN IF Len(words) >= 1 /\ words[1] = <<"search">>
          THEN << search(searchArguments(words).query, searchArguments(words).type) >>
          ELSE IF Len(words) >= 1 /\ words[1] = <<"help">>
          THEN << HelpText >>
          \* words[0] is undefined: text.match throws, the catch logs it
          ELSE IF Len(words) = 0 THEN <<>>
          ELSE IF IsDefined(matchPaperInSquareBrackets(words[1]))
          THEN << findPaper(sliceInner(words[1])) >>
          ELSE IF IsDefined(matchPaper(words[1]))
          THEN << findPaper(words[1]) >>
          ELSE <<>>
     ELSE IF IsDefined(matchPaperInSquareBrackets(raw))
          THEN << findPaper(sliceInner(matchPaperInSquareBrackets(raw)[1])) >>
          ELSE <<>>

\* app.message(/.*/, ...), previous variant
appMessagePrevious(event, early) ==
  LET mentioned == botMentioned(event.text)
      words == IF mentioned THEN sliceFrom(nonEmptyWords(event.text), 1)
               ELSE IF event.channel_type = "im" THEN nonEmptyWords(event.text)
               ELSE <<>>
      raw == join(event.text, <<" ">>)
  IN IF mentioned \/ event.channel_type = "im"
     THEN IF Len(words) >= 1 /\ words[1] = <<"search">>
          THEN << searchLimited(join(sliceFrom(words, 1), <<" ">>), None, early) >>
          ELSE IF Len(words) = 0 THEN <<>>
          ELSE IF IsDefined(matchPaperInSquareBrackets(words[1]))
          THEN << findPaperRaw(sliceInner(words[1])) >>
          ELSE IF IsDefined(matchPaper(words[1]))
          THEN << findPaperRaw(words[1]) >>
          ELSE <<>>
     ELSE IF IsDefined(matchPaperInSquareBrackets(raw))
          THEN << findPaperRaw(sliceInner(matchPaperInSquareBrackets(raw)[1])) >>
          ELSE <<>>

DidNotUnderstandText == <<"Sorry, I didn't understand that.">>

\* bot.event("app_mention", ...), first variant
legacyAppMention(event) ==
  LET messageWords == event.text
      command == messageWords[2]
  IN IF Len(messageWords) < 2 THEN <<>>
     ELSE IF command = <<"search">> THEN << legacySearch(messageWords) >>
     ELSE IF startsWith(command, "[") /\ endsWith(command, "]")
     THEN << legacyBracketLookup(command) >>
     ELSE << DidNotUnderstandText >>

\* /\[((P|N)([R0-9])*)\]/ at position i: the position of the closing bracket
legacyBracketEnds(s, i) ==
  IF i + 1 <= Len(s) /\ s[i] = "[" /\ s[i + 1] \in {"P", "N"}
  THEN {j \in (i + 2)..Len(s) :
          s[j] = "]" /\ \A k \in (i + 2)..(j - 1) : s[k] = "R" \/ IsDigit(s[k])}
  ELSE {}

\* bot.message(/\[((P|N)([R0-9])*)\]/, ...), first variant: the handler runs
\* when the pattern matches the text, with context.matches[1] the identifier
legacyBracketMessage(event) ==
  LET raw == join(event.text, <<" ">>)
      starts == {i \in 1..Len(raw) : legacyBracketEnds(raw, i) # {}}
      first == Min(starts)
      matched == SubSeq(raw, first + 1, Min(legacyBracketEnds(raw, first)) - 1)
      paperId == IF startsWith(matched, "P") /\ Len(matched) = 5
                 THEN findLatestRevision(matched) ELSE Some(matched)
  IN IF starts = {} THEN <<>>
     ELSE IF ~IsDefined(paperId) \/ ~HasKey(paperId[1]) THEN <<>>
     ELSE << makePaperMessageRaw(paperId[1]) >>

(***************************************************************************)
(* Search: catalogs and messages                                           *)
(***************************************************************************)
\* the most documents a catalog of the search model holds
MaxDocs == 34

SearchShapes == {"ascending", "descending", "mixed", "ties", "rare"}

\* the date of document i: later for a higher rank
DateOfRank(r) ==
  DateOf(NatToStr(2019 + (r \div 9)), TwoDigits(8 + ((r % 9) \div 3)), TwoDigits(9 + (r % 3)))

SearchDate(i, shape) ==
  IF shape = "ascending" THEN Some(DateOfRank(i))
  ELSE IF shape \in {"descending", "rare"} THEN Some(DateOfRank(2 * MaxDocs - i))
  ELSE IF shape = "mixed"
  THEN (IF i % 5 = 0 THEN None ELSE Some(DateOfRank(((i * 7) % 37) + 1)))
  ELSE (IF i % 4 = 0 THEN None ELSE Some(DateOfRank((i \div 2) + 1)))

SearchPaper(i, shape) ==
  Paper(<<"N">> \o NatToStr(1000 + i),
        IF shape = "rare"
        THEN (IF i = 1 THEN <<"concepts">> ELSE <<"Concepts", " ", "ranges">>)
        ELSE IF i % 16 = 0 THEN <<"modules">>
        ELSE IF i % 3 = 0 THEN <<"Concepts", " ", "ranges">>
        ELSE IF i % 3 = 1 THEN <<"concepts">>
        ELSE <<"concepts", " ", "for", " ", "modules">>,
        IF i % 4 = 1 THEN Some(<<"Bob">>) ELSE None,
        SearchDate(i, shape),
        IF i % 6 = 5 THEN None
        ELSE IF i % 2 = 0 THEN Some(<<"issue">>) ELSE Some(<<"paper">>),
        None, None, None)

SearchCatalog(n, shape) == [i \in 1..n |-> SearchPaper(i, shape)]

\* catalog sizes around the cuts at 15 and 30
SearchSizes == {0, 2} \cup (TopResults..(TopResults + 1)) \cup (MaxResults..MaxDocs)

Queries ==
  { <<>>, << <<"concepts">> >>, << <<"Concepts">>, <<"ranges">> >>, << <<"bob">> >>,
    << <<"zzz">> >> }

SearchCommands ==
  { << <<"search">> >> \o kind \o query :
      kind \in { <<>>, << <<"papers">> >>, << <<"issues">> >> }, query \in Queries }

SearchEvents ==
  { [text |-> << <<BotMention>> >> \o c, channel_type |-> "channel"] : c \in SearchCommands }
  \cup { [text |-> << <<"search">> >> \o query, channel_type |-> "im"] : query \in Queries }

InitSearch ==
  /\ \E n \in SearchSizes : \E shape \in SearchShapes : paperData = SearchCatalog(n, shape)
  /\ pc = "idle"
  /\ request = [fn |-> "none"]
  /\ response = None

\* the current variant handles a message
HandleMessage(events) ==
  /\ pc = "idle"
  /\ \E event \in events :
       /\ request' = [fn |-> "appMessage", arg |-> event]
       /\ response' = appMessage(event)
  /\ pc' = "returned"
  /\ UNCHANGED paperData

\* the previous variant handles a message
HandleMessagePrevious(events) ==
  /\ pc = "idle"
  /\ \E event \in events : \E early \in BOOLEAN :
       /\ request' = [fn |-> "appMessagePrevious", arg |-> event]
       /\ response' = appMessagePrevious(event, early)
  /\ pc' = "returned"
  /\ UNCHANGED paperData

\* the first variant handles an app_mention event
HandleLegacyAppMention(events) ==
  /\ pc = "idle"
  /\ \E event \in events :
       /\ botMentioned(event.text)
       /\ request' = [fn |-> "legacyAppMention", arg |-> event]
       /\ response' = legacyAppMention(event)
  /\ pc' = "returned"
  /\ UNCHANGED paperData

\* the first variant handles a message event
HandleLegacyBracketMessage(events) ==
  /\ pc = "idle"
  /\ \E event \in events :
       /\ request' = [fn |-> "legacyBracketMessage", arg |-> event]
       /\ response' = legacyBracketMessage(event)
  /\ pc' = "returned"
  /\ UNCHANGED paperData

SearchCurrent == HandleMessage(SearchEvents)
SearchPrevious == HandleMessagePrevious(SearchEvents)
SearchLegacy == HandleLegacyAppMention(SearchEvents)

NextSearch == SearchCurrent \/ SearchPrevious \/ SearchLegacy \/ Return

SpecSearch == InitSearch /\ [][NextSearch]_vars

\* the first variant alone
NextSearchLegacy == SearchLegacy \/ Return

SpecSearchLegacy == InitSearch /\ [][NextSearchLegacy]_vars

(***************************************************************************)
(* Claims on search                                                        *)
(***************************************************************************)
\* the elements of a set of numbers, in increasing order
Ordered(S) == [k \in 1..Cardinality(S) |-> CHOOSE x \in S : Cardinality({y \in S : y < x}) = k - 1]

FirstAt(t, from, atom) == Min({i \in from..Len(t) : t[i] = atom})

\* the identifiers of the fully rendered results of a reply text, in order:
\* each line up to the "Also:" trailer is <link|id: ...
DetailedIds(t) ==
  LET also == {i \in 1..Len(t) : t[i] = "\nAlso: "}
      end == IF also = {} THEN Len(t) ELSE Min(also) - 1
      starts == Ordered({p \in 1..end : p = 1 \/ t[p - 1] = "\n"})
  IN IF t = NoResultsText THEN <<>>
     ELSE [k \in 1..Len(starts) |->
             SubSeq(t, FirstAt(t, starts[k], "|") + 1,
                       FirstAt(t, FirstAt(t, starts[k], "|"), ":") - 1)]

\* the identifiers of the "Also:" trailer of a reply text, in order: <link|id>, ...
AlsoIds(t) ==
  LET also == {i \in 1..Len(t) : t[i] = "\nAlso: "}
      starts == Ordered({p \in (Min(also) + 1)..Len(t) : p = Min(also) + 1 \/ t[p - 1] = ", "})
  IN IF also = {} THEN <<>>
     ELSE [k \in 1..Len(starts) |->
             SubSeq(t, FirstAt(t, starts[k], "|") + 1,
                       FirstAt(t, FirstAt(t, starts[k], "|"), ">") - 1)]

\* the words of the command of an event, after the mention
CommandWords(event) ==
  IF botMentioned(event.text) THEN sliceFrom(nonEmptyWords(event.text), 1)
  ELSE nonEmptyWords(event.text)

\* a search command has been answered by one of the three variants
SearchReplied ==
  /\ pc = "returned"
  /\ request.fn \in {"appMessage", "appMessagePrevious", "legacyAppMention"}
  /\ (request.fn = "legacyAppMention" =>
        Len(request.arg.text) >= 2 /\ request.arg.text[2] = <<"search">>)
  /\ (request.fn # "legacyAppMention" =>
        (botMentioned(request.arg.text) \/ request.arg.channel_type = "im")
        /\ Len(CommandWords(request.arg)) >= 1 /\ CommandWords(request.arg)[1] = <<"search">>)
  /\ Len(response) = 1

\* the identifiers of the documents the answered search command matches
MatchingIds ==
  IF request.fn = "legacyAppMention"
  THEN {r.paperId : r \in Range(legacyMatches(request.arg.text))}
  ELSE IF request.fn = "appMessage"
  THEN LET a == searchArguments(CommandWords(request.arg))
       IN {d.paperId : d \in Range(where(hits(a.query), a.type))}
  ELSE {d.paperId : d \in Range(hits(join(sliceFrom(CommandWords(request.arg), 1), <<" ">>)))}

Dated(id) == IsDefined(Entry(id).date)
DateNumber(id) ==
  LET d == split(Entry(id).date[1], "-")
  IN parseInt(d[1]) * 10000 + parseInt(d[2]) * 100 + parseInt(d[3])

DateOrdered(ids) ==
  \A a, b \in 1..Len(ids) :
    a < b => /\ (Dated(ids[a]) /\ Dated(ids[b])) => DateNumber(ids[a]) >= DateNumber(ids[b])
             /\ ~Dated(ids[a]) => ~Dated(ids[b])

\* C4: over all results of a search reply, the detailed tier followed by the
\* "Also:" tier, a result with a later date comes before one with an earlier
\* date, and every result without a date comes after every result with one.
C4_RepliesDateOrdered ==
  SearchReplied => DateOrdered(DetailedIds(response[1]) \o AlsoIds(response[1]))

\* the part of C4 that the current and the previous variant satisfy
C4_IndexSearchDateOrdered ==
  (SearchReplied /\ request.fn # "legacyAppMention")
    => DateOrdered(DetailedIds(response[1]) \o AlsoIds(response[1]))

\* C5: a search reply has at most 15 fully rendered results and at most 30
\* results in all, its "Also:" tier is non-empty only if the query matched more
\* than 15 documents, and no document appears twice in the reply.
C5_Pagination ==
  SearchReplied =>
    LET detailed == DetailedIds(response[1])
        also == AlsoIds(response[1])
    IN /\ Len(detailed) <= TopResults
       /\ Len(detailed) + Len(also) <= MaxResults
       /\ Len(also) > 0 => Cardinality(MatchingIds) > TopResults
       /\ Cardinality(Range(detailed \o also)) = Len(detailed) + Len(also)

C5_Witness ==
  /\ SearchReplied /\ request.fn = "appMessage"
  /\ Cardinality(MatchingIds) > MaxResults
  /\ Len(DetailedIds(response[1])) = TopResults
  /\ Len(AlsoIds(response[1])) = MaxResults - TopResults

MoreRecent(b, a) == Dated(b) /\ (~Dated(a) \/ DateNumber(b) > DateNumber(a))

MostRecentKept(ids) ==
  /\ Len(ids) = MaxResults
  /\ \A a \in Range(ids) : \A b \in MatchingIds \ Range(ids) : ~MoreRecent(b, a)

\* C7: no cap before ranking: for a query with more than 30 matches, the
\* results of the reply are the 30 most recent matches (no match left out is
\* more recent than one in the reply).
C7_MostRecentThirty ==
  (SearchReplied /\ Cardinality(MatchingIds) > MaxResults)
    => MostRecentKept(DetailedIds(response[1]) \o AlsoIds(response[1]))

\* the part of C7 that the current variant satisfies
C7_CurrentMostRecentThirty ==
  (SearchReplied /\ request.fn = "appMessage" /\ Cardinality(MatchingIds) > MaxResults)
    => MostRecentKept(DetailedIds(response[1]) \o AlsoIds(response[1]))

\* the type filter of an answered search command of the current variant
TypeFilter == searchArguments(CommandWords(request.arg)).type
QueryText == searchArguments(CommandWords(request.arg)).query

\* C8: with a type filter ('search papers ...', 'search issues ...'), every
\* result of the reply, in both tiers, is a document of that type, and when no
\* document of that type matches the query the reply is 'No results.'.
C8_TypeFilter ==
  (SearchReplied /\ request.fn = "appMessage" /\ IsDefined(TypeFilter)) =>
    /\ \A id \in Range(DetailedIds(response[1]) \o AlsoIds(response[1])) :
         Entry(id).type = TypeFilter
    /\ (\A d \in Range(hits(QueryText)) : d.type # TypeFilter) => response[1] = NoResultsText

C8_Witness ==
  /\ SearchReplied /\ request.fn = "appMessage"
  /\ TypeFilter = Some(<<"issue">>)
  /\ \E d \in Range(hits(QueryText)) : d.type = Some(<<"paper">>)
  /\ Len(DetailedIds(response[1])) > 0
  /\ \A id \in Range(DetailedIds(response[1])) : Entry(id).type = Some(<<"issue">>)

(***************************************************************************)
(* The bot: catalogs and messages                                          *)
(***************************************************************************)
BotKeys == {P1234, RevPaperId(P1234, 0), RevPaperId(P1234, 1), N4861, CWG123}

BotCommands ==
  { <<>>,
    << <<"hello">> >>,
    << <<>>, <<"hello">> >>,
    << <<"hello">>, <<"P","1","2","3","4","R","0">> >>,
    << <<"help">> >>,
    << <<"search">>, <<"concepts">> >>,
    << <<"search">>, <<"papers">>, <<"vector">> >>,
    << <<"P","1","2","3","4">> >>,
    << <<"p","1","2","3","4","r","1">> >>,
    << <<"P","1","2","3","4","R","0",".">> >>,
    << <<"N","4","8","6","1">> >>,
    << <<"N","4","8","6","2">> >>,
    << <<"C","W","G","1","2","3">> >>,
    << <<"[","P","1","2","3","4","]">> >>,
    << <<"[","N","4","8","6","1","]">> >>,
    << <<"[","p","1","2","3","4","r","0","]">> >>,
    << <<"[","P","1","2","3","4","R","1","]",",">> >>,
    << <<"[","hello","]">> >>,
    << <<"see">>, <<"[","N","4","8","6","1","]">>, <<"now">> >>,
    << <<"see">>, <<"[","P","1","2","3","4","]">> >> }

\* a text as the sequence of its words: the empty text has one empty word
TextOf(words) == IF words = <<>> THEN << <<>> >> ELSE words

BotEvents ==
  { [text |-> << <<BotMention>> >> \o c, channel_type |-> "channel"] : c \in BotCommands }
  \cup { [text |-> TextOf(c), channel_type |-> "im"] : c \in BotCommands }
  \cup { [text |-> TextOf(c), channel_type |-> "channel"] : c \in BotCommands }

InitBot ==
  /\ \E K \in SUBSET BotKeys : paperData = LookupCatalog(K)
  /\ pc = "idle"
  /\ request = [fn |-> "none"]
  /\ response = None

BotCurrent == HandleMessage(BotEvents)
BotPrevious == HandleMessagePrevious(BotEvents)
BotLegacyAppMention == HandleLegacyAppMention(BotEvents)
BotLegacyBracketMessage == HandleLegacyBracketMessage(BotEvents)

NextBot == BotCurrent \/ BotPrevious \/ BotLegacyAppMention \/ BotLegacyBracketMessage \/ Return

SpecBot == InitBot /\ [][NextBot]_vars

(***************************************************************************)
(* Claims on the handlers                                                  *)
(***************************************************************************)
Handled ==
  /\ pc = "returned"
  /\ request.fn \in {"appMessage", "appMessagePrevious", "legacyAppMention",
                     "legacyBracketMessage"}

\* some part of the text is an identifier of a recognized family
ContainsIdentifier(event) ==
  LET raw == join(event.text, <<" ">>)
  IN \E i \in 1..Len(raw) : \E j \in i..Len(raw) : IsSpecIdentifier(SubSeq(raw, i, j))

\* the message is a 'search' or 'help' command
IsCommand(event) ==
  \/ /\ Len(CommandWords(event)) >= 1
     /\ CommandWords(event)[1] \in {<<"search">>, <<"help">>}
  \/ /\ Len(event.text) >= 2
     /\ event.text[2] \in {<<"search">>, <<"help">>}

\* C10: a handler sends at most one reply per inbound message, and a message
\* that holds no recognized identifier pattern and is not a 'search' or 'help'
\* command gets no reply, whether the bot was mentioned, messaged directly or
\* the message was ambient channel text.
C10_AtMostOneReplySilentOtherwise ==
  Handled =>
    /\ Len(response) <= 1
    /\ (~ContainsIdentifier(request.arg) /\ ~IsCommand(request.arg)) => response = <<>>

\* the part of C10 that the handlers other than the first variant's
\* app_mention handler satisfy
C10_MessageHandlerSilent ==
  (Handled /\ request.fn # "legacyAppMention") =>
    /\ Len(response) <= 1
    /\ (~ContainsIdentifier(request.arg) /\ ~IsCommand(request.arg)) => response = <<>>

\* the first word of an explicit command of the current variant, when it is
\* neither 'search' nor 'help'
ExplicitLookup ==
  /\ pc = "returned" /\ request.fn = "appMessage"
  /\ (botMentioned(request.arg.text) \/ request.arg.channel_type = "im")
  /\ Len(CommandWords(request.arg)) >= 1
  /\ CommandWords(request.arg)[1] \notin {<<"search">>, <<"help">>}

FirstWord == CommandWords(request.arg)[1]

\* the identifier that detection matched in the first word
Detected ==
  IF IsDefined(matchPaperInSquareBrackets(FirstWord))
  THEN Some(sliceInner(matchPaperInSquareBrackets(FirstWord)[1]))
  ELSE matchPaper(FirstWord)

\* the key an identifier stands for: its latest revision when it is a bare
\* P or D identifier with revisions, otherwise itself, uppercased
ResolvedKey(id) ==
  LET upper == toUpperCase(id)
  IN IF (startsWith(upper, "P") \/ startsWith(upper, "D")) /\ Len(upper) = 5
        /\ IsDefined(findLatestRevision(upper))
     THEN findLatestRevision(upper)[1] ELSE upper

\* C11: on the explicit command path, when the first word is recognized by
\* matchPaper or matchPaperInSquareBrackets and the identifier matched is, or
\* resolves by revision to, a key of the catalog, the reply is the rendered
\* record of that identifier and not the not-found text, also when the word
\* carries characters around the identifier.
C11_DetectionLookupAgree ==
  (ExplicitLookup /\ IsDefined(Detected) /\ HasKey(ResolvedKey(Detected[1])))
    => response = << makePaperMessage(ResolvedKey(Detected[1])) >>

\* the part of C11 that holds: the first word is the identifier itself, or
\* the identifier in brackets
C11_ExactWordAgree ==
  (ExplicitLookup /\ IsDefined(Detected) /\ HasKey(ResolvedKey(Detected[1]))
   /\ FirstWord \in {Detected[1], <<"[">> \o Detected[1] \o <<"]">>})
    => response = << makePaperMessage(ResolvedKey(Detected[1])) >>

====
